---- MODULE Spec2Model ----
(***************************************************************************)
(* Model of src/dbm/helpers.py: the ScriptHelper execution context         *)
(* (construction, print_info, run_command, timestamp, check_dir), the      *)
(* with_helper scoped runner, and the pure path function add_suffix.       *)
(*                                                                         *)
(* Four specifications share the variables:                                *)
(*   Spec      one scoped run of with_helper._with_helper, step by step    *)
(*   SpecCtx   a ScriptHelper object, print_info and run_command            *)
(*   SpecDir   a ScriptHelper object over a directory tree: check_dir,     *)
(*             mkdir                                                       *)
(*   SpecPath  add_suffix applied to bounded inputs                        *)
(***************************************************************************)
EXTENDS Integers, Sequences, FiniteSets, TLC

VARIABLES
    pc,          \* position inside _with_helper / phase of the other specs
    kw,          \* keyword arguments of the call of _with_helper
    helper,      \* the ScriptHelper object (its attributes)
    idx,         \* index of the for-loop over a callback list
    ex,          \* the exception bound by "except Exception as ex"
    pending,     \* the exception currently propagating ("none" if none)
    trace,       \* observable events of the run, in order
    file_open,   \* the log file object is open
    tmp_exists,  \* the TemporaryDirectory exists on disk
    call,        \* SpecCtx, SpecDir: the method call in progress and what it did
    fs,          \* SpecDir: the directory trees on disk
    sfx          \* SpecPath: the last add_suffix call and its result

vars == <<pc, kw, helper, idx, ex, pending, trace, file_open, tmp_exists, call, fs, sfx>>

(***************************************************************************)
(* Bounds of the model.                                                    *)
(***************************************************************************)
MaxVerbosity == 3
MaxCallbacks == 2
MaxArgs == 3
MaxEntries == 2
MaxNameLen == 3

\* An optional argument: None, or a given value (a sequence of characters).
None == [given |-> FALSE, s |-> <<>>]
Some(s) == [given |-> TRUE, s |-> s]

\* str.startswith, str.endswith, str.removesuffix on sequences of characters
startswith(s, p) == Len(p) <= Len(s) /\ SubSeq(s, 1, Len(p)) = p
endswith(s, p) == Len(p) <= Len(s) /\ SubSeq(s, Len(s) - Len(p) + 1, Len(s)) = p
removesuffix(s, p) ==
    IF Len(p) > 0 /\ endswith(s, p) THEN SubSeq(s, 1, Len(s) - Len(p)) ELSE s

\* DEFAULT_VERBOSITY = 2
DEFAULT_VERBOSITY == 2

Verbosities == 0..MaxVerbosity

\* The verbosity levels on either side of the thresholds the code tests
\* (verbosity > 0, verbosity < 2).
RunVerbosities == {0, 1, DEFAULT_VERBOSITY}

\* A callback is a zero-argument callable: all the runner sees of it is
\* whether the call returns or raises.  A loop over a callback list stops
\* at the first callback that raises, so the ones registered after it are
\* never called: they are given the behaviour "ok".
CallbackLists ==
    {cbs \in UNION {[1..n -> {"ok", "raise"}] : n \in 0..MaxCallbacks} :
        \A i \in 1..Len(cbs) : \A j \in 1..Len(cbs) :
            (i < j /\ cbs[i] = "raise") => cbs[j] = "ok"}

(***************************************************************************)
(* ScriptHelper.__init__                                                   *)
(***************************************************************************)
ScriptHelperQuietIgnored(file_log, verbosity, quiet, dry_run, overwrite) ==
    [file_log |-> file_log,
     verbosity |-> verbosity,
     quiet |-> quiet,
     dry_run |-> dry_run,
     overwrite |-> overwrite,
     callbacks_always |-> <<>>,
     callbacks_success |-> <<>>,
     callback_failure |-> <<>>]

ScriptHelper(file_log, verbosity, quiet, dry_run, overwrite) ==
    [file_log |-> file_log,
     verbosity |-> IF quiet THEN 0 ELSE verbosity,
     quiet |-> quiet,
     dry_run |-> dry_run,
     overwrite |-> overwrite,
     callbacks_always |-> <<>>,
     callbacks_success |-> <<>>,
     callback_failure |-> <<>>]

\* the property ScriptHelper.verbose (it shadows the method of the same name)
verbose(self) == self.verbosity > 0

\* ScriptHelper.print_info: the lines it writes
print_info(self) == IF verbose(self) THEN <<"info">> ELSE <<>>

(***************************************************************************)
(* ScriptHelper.run_command.  args is a sequence of tokens; stdout and     *)
(* stderr are "None" or an explicit target; returncode is the exit status  *)
(* the spawned process would return.  The result records what the call     *)
(* did: the echoed line, the spawn and its streams, the raised error.      *)
(***************************************************************************)
RECURSIVE join(_)
join(args) ==
    IF Len(args) = 0 THEN <<>>
    ELSE IF Len(args) = 1 THEN <<args[1]>>
    ELSE <<args[1], " ">> \o join(Tail(args))

\* the empty tokens are passed on to the process
filter_args_keeps_empty(args) == args

filter_args(args) == SelectSeq(args, LAMBDA arg : arg # "")

resolve_stdout(self, stdout, silent) ==
    IF stdout = "None"
    THEN IF silent \/ self.verbosity < 2 THEN "DEVNULL" ELSE "file_log"
    ELSE stdout

\* stderr resolved on its own, whatever happened to stdout
resolve_stderr_independent(self, stdout, stderr, silent) ==
    IF stderr = "None" THEN "file_log" ELSE stderr

resolve_stderr(self, stdout, stderr, silent) ==
    IF stdout = "None" /\ (silent \/ self.verbosity < 2)
    THEN "DEVNULL"
    ELSE IF stderr = "None" THEN "file_log" ELSE stderr

\* the dry-run test without its negation
executes_in_dry_run(self, force) == force \/ self.dry_run

executes(self, force) == force \/ ~self.dry_run

run_command(self, args, shell, stdout, stderr, silent, force, returncode) ==
    LET argv == filter_args(args)
        args_str == join(argv)
        echoed == ~silent /\ (self.verbosity > 0 \/ self.dry_run)
        spawn == executes(self, force)
    IN  [echo |-> echoed,
         line |-> IF echoed THEN args_str ELSE <<>>,
         color_prefix_only |-> echoed /\ self.dry_run,
         spawned |-> IF spawn THEN 1 ELSE 0,
         argv |-> IF spawn THEN argv ELSE <<>>,
         shell |-> spawn /\ shell,
         stdout |-> IF spawn THEN resolve_stdout(self, stdout, silent) ELSE "-",
         stderr |-> IF spawn THEN resolve_stderr(self, stdout, stderr, silent) ELSE "-",
         raised |-> spawn /\ returncode # 0,
         error |-> IF spawn /\ returncode # 0
                   THEN [cmd |-> args_str, returncode |-> returncode]
                   ELSE [cmd |-> <<>>, returncode |-> 0]]

(***************************************************************************)
(* ScriptHelper.check_dir and ScriptHelper.mkdir over a directory tree.    *)
(* A tree is absent, a regular file, or a directory with entries; an entry *)
(* has a name, is a file or a directory, and lies directly in the          *)
(* directory or in a subdirectory of it (nested).                          *)
(***************************************************************************)
Absent == [kind |-> "absent", entries |-> {}]
RegularFile == [kind |-> "file", entries |-> {}]
Dir(entries) == [kind |-> "dir", entries |-> entries]

\* dpath.glob("*"): the entries directly in the directory
glob(tree) == {e \in tree.entries : ~e.nested}

\* dpath.rglob("*"): the entries at every depth
rglob_top_only(tree) == glob(tree)

rglob(tree) == tree.entries

files_in_dir(tree, prefix) ==
    LET files == {e \in rglob(tree) : e.is_file}
    IN  IF prefix.given
        THEN {e \in files : startswith(e.name, prefix.s)}
        ELSE files

check_dir(self, tree, dpath, prefix) ==
    IF tree.kind # "absent" /\ ~self.overwrite /\ files_in_dir(tree, prefix) # {}
    THEN [raised |-> TRUE, ret |-> "-"]
    ELSE [raised |-> FALSE, ret |-> dpath]

\* exist_ok is "None", "True" or "False"
mkdir(self, tree, exist_ok) ==
    LET eo == IF exist_ok = "None" THEN self.overwrite ELSE exist_ok = "True"
    IN  IF self.dry_run THEN [raised |-> FALSE, tree |-> tree]
        ELSE IF tree.kind = "absent" THEN [raised |-> FALSE, tree |-> Dir({})]
        ELSE IF tree.kind = "dir" /\ eo THEN [raised |-> FALSE, tree |-> tree]
        ELSE [raised |-> TRUE, tree |-> tree]

(***************************************************************************)
(* add_suffix, with the pathlib operations it uses, on paths written as    *)
(* sequences of characters in pathlib's normal form (no empty or "."       *)
(* components, no trailing slash).                                         *)
(***************************************************************************)
rfind(s, c) ==
    LET hits == {i \in 1..Len(s) : s[i] = c}
    IN  IF hits = {} THEN 0 ELSE CHOOSE i \in hits : \A j \in hits : j <= i

\* PurePath.name
path_name(p) == SubSeq(p, rfind(p, "/") + 1, Len(p))

\* PurePath.parent
path_parent(p) ==
    LET i == rfind(p, "/")
    IN  IF i = 0 THEN <<".">>
        ELSE IF i = 1 THEN <<"/">>
        ELSE SubSeq(p, 1, i - 1)

\* PurePath.suffix: from the last dot of the name, unless that dot is the
\* first or the last character of the name
path_suffix(p) ==
    LET name == path_name(p)
        i == rfind(name, ".")
    IN  IF 1 < i /\ i < Len(name) THEN SubSeq(name, i, Len(name)) ELSE <<>>

\* PurePath.stem
path_stem(p) ==
    LET name == path_name(p)
        i == rfind(name, ".")
    IN  IF 1 < i /\ i < Len(name) THEN SubSeq(name, 1, i - 1) ELSE name

\* PurePath.__truediv__ with a string in normal form on the right
joinpath(p, other) ==
    IF Len(other) = 0 THEN p
    ELSE IF other[1] = "/" THEN other
    ELSE IF p = <<".">> THEN other
    ELSE IF p = <<"/">> THEN p \o other
    ELSE p \o <<"/">> \o other

add_suffix(path, suffix, sep, ext) ==
    LET suffix1 == IF sep.given /\ startswith(suffix, sep.s)
                   THEN SubSeq(suffix, Len(sep.s) + 1, Len(suffix))
                   ELSE suffix
        sep1 == IF sep.given THEN sep.s ELSE <<>>
        stem == IF ext.given THEN removesuffix(path, ext.s) ELSE path_stem(path)
        ext1 == IF ext.given THEN ext.s ELSE path_suffix(path)
    IN  joinpath(path_parent(path), stem \o sep1 \o suffix1 \o ext1)

(***************************************************************************)
(* Events of a scoped run.  The "line" events (LineKinds) are the lines     *)
(* that reach the log sink (the log file, or standard output when no log   *)
(* file is given); the other events mark a call or a control-flow step.    *)
(***************************************************************************)
Ev(k, n) == [k |-> k, n |-> n]

LineKinds == {"run", "date", "separation", "task", "done", "error"}

\* ScriptHelper.timestamp: run_command(["date"], force=True).  The date
\* program exits with status 0.  "timestamp" marks the call, "run" is the
\* echoed command line, "date" the output of the program, which reaches
\* the sink only when its stdout is the sink.
timestamp(self) ==
    LET r == run_command(self, <<"date">>, FALSE, "None", "None", FALSE, TRUE, 0)
    IN  <<Ev("timestamp", 0)>>
        \o (IF r.echo THEN <<Ev("run", 0)>> ELSE <<>>)
        \o (IF r.spawned = 1 /\ r.stdout = "file_log" THEN <<Ev("date", 0)>> ELSE <<>>)

\* ScriptHelper.print_separation
print_separation(self) == <<Ev("separation", 0)>>

\* ScriptHelper.done
done(self) == <<Ev("done", 0)>>

\* ScriptHelper.print_error: the echo of the prefixed message; whether the
\* process exit is requested is the caller's exit argument.
print_error(self) == <<Ev("error", 0)>>

NoHelper == ScriptHelper("None", 0, FALSE, FALSE, FALSE)
NoCall == [op |-> "none"]
NoFs == [p \in {} |-> 0]
NoSfx == [op |-> "none"]

(***************************************************************************)
(* with_helper._with_helper                                                *)
(***************************************************************************)
KwArgs ==
    [with_log : BOOLEAN, verbosity : RunVerbosities, quiet : BOOLEAN,
     dry_run : BOOLEAN, exit_on_error : BOOLEAN]

Init ==
    /\ pc = "start"
    /\ kw \in KwArgs
    /\ helper = NoHelper
    /\ idx = 0
    /\ ex = "none"
    /\ pending = "none"
    /\ trace = <<>>
    /\ file_open = FALSE
    /\ tmp_exists = FALSE
    /\ call = NoCall
    /\ fs = NoFs
    /\ sfx = NoSfx

\* lines 176-191: create the scratch directory, open the log, build the helper
Enter ==
    /\ pc = "start"
    /\ tmp_exists' = TRUE
    /\ file_open' = kw.with_log
    /\ helper' = ScriptHelper(IF kw.with_log THEN "log" ELSE "None",
                              kw.verbosity, kw.quiet, kw.dry_run, FALSE)
    /\ pc' = "timestamp"
    /\ UNCHANGED <<kw, idx, ex, pending, trace, call, fs, sfx>>

\* line 193
OpenTimestamp ==
    /\ pc = "timestamp"
    /\ trace' = trace \o timestamp(helper)
    /\ pc' = "separation"
    /\ UNCHANGED <<kw, helper, idx, ex, pending, file_open, tmp_exists, call, fs, sfx>>

\* line 194
OpenSeparation ==
    /\ pc = "separation"
    /\ trace' = trace \o print_separation(helper)
    /\ pc' = "func"
    /\ UNCHANGED <<kw, helper, idx, ex, pending, file_open, tmp_exists, call, fs, sfx>>

\* line 196: the task.  It may register callbacks on the helper and write
\* output (one "task" event stands for all of it), and it returns, raises an Exception, or raises a BaseException
\* that is no Exception (SystemExit, KeyboardInterrupt).
Func ==
    /\ pc = "func"
    /\ \E cs \in CallbackLists, cf \in CallbackLists, ca \in CallbackLists,
          wrote \in BOOLEAN, outcome \in {"return", "raise", "base"} :
          /\ helper' = [helper EXCEPT !.callbacks_success = cs,
                                      !.callback_failure = cf,
                                      !.callbacks_always = ca]
          /\ trace' = IF wrote THEN Append(trace, Ev("task", 0)) ELSE trace
          /\ IF outcome = "return"
             THEN /\ pc' = "callbacks_success"
                  /\ UNCHANGED <<ex, pending>>
             ELSE IF outcome = "raise"
             THEN /\ pc' = "callback_failure"
                  /\ ex' = "task"
                  /\ pending' = "task"
             ELSE /\ pc' = "callbacks_always"
                  /\ pending' = "BaseException"
                  /\ UNCHANGED ex
    /\ idx' = 1
    /\ UNCHANGED <<kw, file_open, tmp_exists, call, fs, sfx>>

\* lines 198-199
SuccessCallback ==
    /\ pc = "callbacks_success"
    /\ idx <= Len(helper.callbacks_success)
    /\ trace' = Append(trace, Ev("callback_success", idx))
    /\ IF helper.callbacks_success[idx] = "raise"
       THEN /\ pc' = "callback_failure"
            /\ ex' = "callback_success"
            /\ pending' = "callback_success"
            /\ idx' = 1
       ELSE /\ idx' = idx + 1
            /\ UNCHANGED <<pc, ex, pending>>
    /\ UNCHANGED <<kw, helper, file_open, tmp_exists, call, fs, sfx>>

\* line 201: the done message; the write itself may raise
Done ==
    /\ pc = "callbacks_success"
    /\ idx > Len(helper.callbacks_success)
    /\ \E ok \in BOOLEAN :
          IF ok
          THEN /\ trace' = trace \o done(helper)
               /\ pc' = "callbacks_always"
               /\ UNCHANGED <<ex, pending>>
          ELSE /\ pc' = "callback_failure"
               /\ ex' = "done"
               /\ pending' = "done"
               /\ UNCHANGED trace
    /\ idx' = 1
    /\ UNCHANGED <<kw, helper, file_open, tmp_exists, call, fs, sfx>>

\* lines 205-206
FailureCallback ==
    /\ pc = "callback_failure"
    /\ idx <= Len(helper.callback_failure)
    /\ trace' = Append(trace, Ev("callback_failure", idx))
    /\ IF helper.callback_failure[idx] = "raise"
       THEN /\ pc' = "callbacks_always"
            /\ pending' = "callback_failure"
            /\ idx' = 1
       ELSE /\ idx' = idx + 1
            /\ UNCHANGED <<pc, pending>>
    /\ UNCHANGED <<kw, helper, ex, file_open, tmp_exists, call, fs, sfx>>

\* print_error as a hard exit: the process ends inside sys.exit and the
\* finally block and the with blocks are never left
PrintErrorHardExit ==
    /\ pc = "callback_failure"
    /\ idx > Len(helper.callback_failure)
    /\ trace' = trace \o print_error(helper)
    /\ IF kw.exit_on_error
       THEN /\ pending' = "SystemExit(1)"
            /\ pc' = "exited"
       ELSE /\ pc' = "raise"
            /\ UNCHANGED pending
    /\ idx' = 1
    /\ UNCHANGED <<kw, helper, ex, file_open, tmp_exists, call, fs, sfx>>

\* line 208 with lines 324-326: echo the error, then sys.exit(1) if asked
PrintError ==
    /\ pc = "callback_failure"
    /\ idx > Len(helper.callback_failure)
    /\ trace' = trace \o print_error(helper)
    /\ IF kw.exit_on_error
       THEN /\ pending' = "SystemExit(1)"
            /\ pc' = "callbacks_always"
       ELSE /\ pc' = "raise"
            /\ UNCHANGED pending
    /\ idx' = 1
    /\ UNCHANGED <<kw, helper, ex, file_open, tmp_exists, call, fs, sfx>>

\* the handler swallows the error instead of raising it again
ReraiseSwallowed ==
    /\ pc = "raise"
    /\ pending' = "none"
    /\ pc' = "callbacks_always"
    /\ UNCHANGED <<kw, helper, idx, ex, trace, file_open, tmp_exists, call, fs, sfx>>

\* line 209: raise ex
Reraise ==
    /\ pc = "raise"
    /\ trace' = Append(trace, Ev("raise", 0))
    /\ pending' = ex
    /\ pc' = "callbacks_always"
    /\ UNCHANGED <<kw, helper, idx, ex, file_open, tmp_exists, call, fs, sfx>>

\* lines 213-214
AlwaysCallback ==
    /\ pc = "callbacks_always"
    /\ idx <= Len(helper.callbacks_always)
    /\ trace' = Append(trace, Ev("callback_always", idx))
    /\ IF helper.callbacks_always[idx] = "raise"
       THEN /\ pc' = "close_log"
            /\ pending' = "callback_always"
            /\ idx' = 1
       ELSE /\ idx' = idx + 1
            /\ UNCHANGED <<pc, pending>>
    /\ UNCHANGED <<kw, helper, ex, file_open, tmp_exists, call, fs, sfx>>

\* line 216
CloseSeparation ==
    /\ pc = "callbacks_always"
    /\ idx > Len(helper.callbacks_always)
    /\ trace' = trace \o print_separation(helper)
    /\ pc' = "close_timestamp"
    /\ UNCHANGED <<kw, helper, idx, ex, pending, file_open, tmp_exists, call, fs, sfx>>

\* line 217
CloseTimestamp ==
    /\ pc = "close_timestamp"
    /\ trace' = trace \o timestamp(helper)
    /\ pc' = "close_log"
    /\ UNCHANGED <<kw, helper, idx, ex, pending, file_open, tmp_exists, call, fs, sfx>>

\* line 181: leaving the inner with block closes the log file, if any
CloseLog ==
    /\ pc = "close_log"
    /\ file_open' = FALSE
    /\ trace' = IF file_open THEN Append(trace, Ev("close_log", 0)) ELSE trace
    /\ pc' = "cleanup"
    /\ UNCHANGED <<kw, helper, idx, ex, pending, tmp_exists, call, fs, sfx>>

\* line 180: leaving the outer with block removes the scratch directory;
\* the call then returns, or the pending exception reaches the caller
Cleanup ==
    /\ pc = "cleanup"
    /\ tmp_exists' = FALSE
    /\ trace' = Append(trace, Ev("cleanup", 0))
    /\ pc' = "exited"
    /\ UNCHANGED <<kw, helper, idx, ex, pending, file_open, call, fs, sfx>>

Next ==
    \/ Enter
    \/ OpenTimestamp
    \/ OpenSeparation
    \/ Func
    \/ SuccessCallback
    \/ Done
    \/ FailureCallback
    \/ PrintError
    \/ Reraise
    \/ AlwaysCallback
    \/ CloseSeparation
    \/ CloseTimestamp
    \/ CloseLog
    \/ Cleanup

Spec == Init /\ [][Next]_vars

(***************************************************************************)
(* SpecCtx: a ScriptHelper object; print_info and run_command              *)
(***************************************************************************)
CtorArgs ==
    [file_log : {"None", "log"}, verbosity : Verbosities, quiet : BOOLEAN,
     dry_run : BOOLEAN, overwrite : BOOLEAN]

\* Command tokens.  A command names a program: an argument list holds at
\* least one non-empty token.
Tokens == {"", "date", "false"}
ArgLists ==
    {args \in UNION {[1..n -> Tokens] : n \in 1..MaxArgs} :
        \E i \in 1..Len(args) : args[i] # ""}
\* exit statuses of the spawned process
ReturnCodes == {0, 1, 2}
\* explicit stream targets, besides None
StdoutTargets == {"None", "out_file"}
StderrTargets == {"None", "err_file"}

Idle ==
    /\ idx = 0
    /\ ex = "none"
    /\ pending = "none"
    /\ trace = <<>>
    /\ file_open = FALSE
    /\ tmp_exists = FALSE

InitCtx ==
    /\ pc = "ctx"
    /\ kw \in CtorArgs
    /\ helper = ScriptHelper(kw.file_log, kw.verbosity, kw.quiet, kw.dry_run, kw.overwrite)
    /\ Idle
    /\ call = NoCall
    /\ fs = NoFs
    /\ sfx = NoSfx

\* helper.quiet = b: a plain attribute assignment
SetQuiet ==
    /\ pc = "ctx"
    /\ \E b \in BOOLEAN : helper' = [helper EXCEPT !.quiet = b]
    /\ UNCHANGED <<pc, kw, idx, ex, pending, trace, file_open, tmp_exists, call, fs, sfx>>

PrintInfo ==
    /\ pc = "ctx"
    /\ call' = [op |-> "print_info", out |-> print_info(helper)]
    /\ pc' = "called"
    /\ UNCHANGED <<kw, helper, idx, ex, pending, trace, file_open, tmp_exists, fs, sfx>>

RunCommand ==
    /\ pc = "ctx"
    /\ \E args \in ArgLists, shell \in BOOLEAN, stdout \in StdoutTargets,
          stderr \in StderrTargets, silent \in BOOLEAN, force \in BOOLEAN,
          returncode \in ReturnCodes :
          call' = [op |-> "run_command", args |-> args, shell |-> shell,
                   stdout |-> stdout, stderr |-> stderr, silent |-> silent,
                   force |-> force, returncode |-> returncode,
                   result |-> run_command(helper, args, shell, stdout, stderr,
                                          silent, force, returncode)]
    /\ pc' = "called"
    /\ UNCHANGED <<kw, helper, idx, ex, pending, trace, file_open, tmp_exists, fs, sfx>>

\* the call returns (or its error reaches the caller); the object lives on
Return ==
    /\ pc = "called"
    /\ call' = NoCall
    /\ pc' = "ctx"
    /\ UNCHANGED <<kw, helper, idx, ex, pending, trace, file_open, tmp_exists, fs, sfx>>

NextCtx == SetQuiet \/ PrintInfo \/ RunCommand \/ Return

SpecCtx == InitCtx /\ [][NextCtx]_vars

(***************************************************************************)
(* SpecDir: a ScriptHelper object over directory trees; check_dir, mkdir   *)
(***************************************************************************)
DirPaths == {"out", "res"}
EntryNames == {<<"o">>, <<"o", "t">>, <<"t", "o">>}
Prefixes == {None, Some(<<>>), Some(<<"o">>), Some(<<"o", "t">>),
             Some(<<"t">>), Some(<<"o", "t", "o">>)}
Entries == [name : EntryNames, is_file : BOOLEAN, nested : BOOLEAN]
Trees ==
    {Absent, RegularFile}
    \cup {Dir(es) : es \in {x \in SUBSET Entries : Cardinality(x) <= MaxEntries}}

\* the disk holds one of the two paths, in any shape; mkdir may create the
\* other
InitDir ==
    /\ pc = "ctx"
    /\ kw \in [file_log : {"None"}, verbosity : {DEFAULT_VERBOSITY}, quiet : {FALSE},
               dry_run : BOOLEAN, overwrite : BOOLEAN]
    /\ helper = ScriptHelper(kw.file_log, kw.verbosity, kw.quiet, kw.dry_run, kw.overwrite)
    /\ Idle
    /\ call = NoCall
    /\ \E p \in DirPaths, t \in Trees :
          fs = [q \in DirPaths |-> IF q = p THEN t ELSE Absent]
    /\ sfx = NoSfx

CheckDir ==
    /\ pc = "ctx"
    /\ \E dpath \in DirPaths, prefix \in Prefixes :
          call' = [op |-> "check_dir", dpath |-> dpath, prefix |-> prefix,
                   result |-> check_dir(helper, fs[dpath], dpath, prefix)]
    /\ pc' = "called"
    /\ UNCHANGED <<kw, helper, idx, ex, pending, trace, file_open, tmp_exists, fs, sfx>>

Mkdir ==
    /\ pc = "ctx"
    /\ \E path \in DirPaths, exist_ok \in {"None", "True", "False"} :
          LET r == mkdir(helper, fs[path], exist_ok)
          IN  /\ call' = [op |-> "mkdir", dpath |-> path, raised |-> r.raised]
              /\ fs' = [fs EXCEPT ![path] = r.tree]
    /\ pc' = "called"
    /\ UNCHANGED <<kw, helper, idx, ex, pending, trace, file_open, tmp_exists, sfx>>

NextDir == CheckDir \/ Mkdir \/ Return

SpecDir == InitDir /\ [][NextDir]_vars

(***************************************************************************)
(* SpecPath: add_suffix on bounded inputs                                  *)
(***************************************************************************)
\* SEP_SUFFIX = "-"
SEP_SUFFIX == <<"-">>

\* file names: they start with a letter and hold letters and dots
FileNames ==
    {n \in UNION {[1..k -> {"i", "n", "."}] : k \in 1..MaxNameLen} : n[1] = "i"}
ParentPrefixes == {<<>>, <<"d", "/">>, <<"/", "d", "/">>, <<"/">>}
PathInputs == {d \o n : d \in ParentPrefixes, n \in FileNames}
SuffixInputs == {<<"b">>, <<"-", "b">>, <<"-", "-", "b">>}
SepInputs == {Some(SEP_SUFFIX), None}
ExtInputs == {None, Some(<<".", "n">>), Some(<<"n">>)}

InitPath ==
    /\ pc = "path"
    /\ kw = [file_log |-> "None"]
    /\ helper = NoHelper
    /\ Idle
    /\ call = NoCall
    /\ fs = NoFs
    /\ sfx = NoSfx

AddSuffix ==
    /\ pc = "path"
    /\ \E path \in PathInputs, suffix \in SuffixInputs, sep \in SepInputs,
          ext \in ExtInputs :
          sfx' = [op |-> "add_suffix", path |-> path, suffix |-> suffix,
                  sep |-> sep, ext |-> ext,
                  result |-> add_suffix(path, suffix, sep, ext)]
    /\ pc' = "returned"
    /\ UNCHANGED <<kw, helper, idx, ex, pending, trace, file_open, tmp_exists, call, fs>>

PathReturn ==
    /\ pc = "returned"
    /\ sfx' = NoSfx
    /\ pc' = "path"
    /\ UNCHANGED <<kw, helper, idx, ex, pending, trace, file_open, tmp_exists, call, fs>>

NextPath == AddSuffix \/ PathReturn

SpecPath == InitPath /\ [][NextPath]_vars

(***************************************************************************)
(* Properties of a scoped run                                              *)
(***************************************************************************)
Kinds(seq) == [i \in 1..Len(seq) |-> seq[i].k]
OfKind(k) == SelectSeq(trace, LAMBDA e : e.k = k)
Indices(k) == [i \in 1..Len(OfKind(k)) |-> OfKind(k)[i].n]
Positions(k) == {i \in 1..Len(trace) : trace[i].k = k}
Happened(k) == Positions(k) # {}

\* the calls and control-flow steps of the run, without the lines written
\* by timestamp
Steps == SelectSeq(trace, LAMBDA e : e.k \notin {"run", "date"})
\* the lines that reached the sink
Lines == SelectSeq(trace, LAMBDA e : e.k \in LineKinds)

Raises(cbs) == \E i \in 1..Len(cbs) : cbs[i] = "raise"

\* the steps after the last always-callback (all steps from the start of
\* the finally block when no always-callback is registered)
RECURSIVE AfterAlways(_)
AfterAlways(seq) ==
    IF Len(seq) = 0 THEN <<>>
    ELSE IF \E i \in 1..Len(seq) : seq[i].k = "callback_always"
    THEN AfterAlways(Tail(seq))
    ELSE seq

Closing ==
    <<"separation", "timestamp">>
    \o (IF kw.with_log THEN <<"close_log">> ELSE <<>>)
    \o <<"cleanup">>

RECURSIVE LastN(_, _)
LastN(seq, n) == IF Len(seq) <= n THEN seq ELSE LastN(Tail(seq), n)

(* C2: every scoped run that has returned or raised, for every task outcome
   (return, Exception, BaseException) and either value of exit_on_error,
   has closed the log sink and then removed the scratch directory as its
   last steps; the always-callbacks were invoked in registration order,
   all after every success and failure callback; and, when no
   always-callback itself raised, every registered always-callback was
   invoked, followed by the closing separator, the closing timestamp, the
   close of the sink and the removal of the scratch directory, in that
   order. *)
C2_Finalization ==
    pc = "exited" =>
        /\ ~tmp_exists
        /\ ~file_open
        /\ Kinds(LastN(Steps, 1)) = <<"cleanup">>
        /\ kw.with_log => Kinds(LastN(Steps, 2)) = <<"close_log", "cleanup">>
        /\ \E m \in 0..Len(helper.callbacks_always) :
               Indices("callback_always") = [i \in 1..m |-> i]
        /\ \A a \in Positions("callback_always") :
               \A b \in Positions("callback_success") \cup Positions("callback_failure") :
                   b < a
        /\ ~Raises(helper.callbacks_always) =>
               /\ Indices("callback_always")
                      = [i \in 1..Len(helper.callbacks_always) |-> i]
               /\ Kinds(LastN(Steps, Len(Closing))) = Closing
               /\ Kinds(AfterAlways(Steps)) = Closing
                  \/ ~Happened("callback_always")

\* C2 witness: a run whose task raised, with exit_on_error set, two
\* always-callbacks and a log file, has exited
C2_Witness ==
    /\ pc = "exited"
    /\ ex = "task"
    /\ kw.exit_on_error
    /\ kw.with_log
    /\ Len(helper.callbacks_always) = 2
    /\ ~Raises(helper.callbacks_always)
    /\ pending = "SystemExit(1)"

(* C3: in a single scoped run, success callbacks and failure callbacks are
   never both invoked. *)
C3_Exclusive ==
    ~(Happened("callback_success") /\ Happened("callback_failure"))

(* C4: in a scoped run whose task raised an Exception: no success callback
   is invoked and no done message is printed; the failure callbacks are
   invoked in registration order; when none of them raised, all of them
   were invoked and exactly one error print follows the last of them; then
   with exit_on_error false the handler raises the caught task error again,
   and with exit_on_error true SystemExit(1) is raised and the re-raise is
   never reached; and when no always-callback raised either, that same
   exception is the one that leaves the run. *)
C4_FailurePath ==
    (pc = "exited" /\ ex = "task") =>
        /\ ~Happened("callback_success")
        /\ ~Happened("done")
        /\ \E m \in 0..Len(helper.callback_failure) :
               Indices("callback_failure") = [i \in 1..m |-> i]
        /\ ~Raises(helper.callback_failure) =>
               /\ Indices("callback_failure")
                      = [i \in 1..Len(helper.callback_failure) |-> i]
               /\ Cardinality(Positions("error")) = 1
               /\ \A f \in Positions("callback_failure") :
                      \A e \in Positions("error") : f < e
               /\ \A e \in Positions("error") :
                      \A a \in Positions("callback_always") : e < a
               /\ IF kw.exit_on_error
                  THEN /\ ~Happened("raise")
                       /\ ~Raises(helper.callbacks_always)
                              => pending = "SystemExit(1)"
                  ELSE /\ Cardinality(Positions("raise")) = 1
                       /\ \A e \in Positions("error") :
                              \A r \in Positions("raise") : e < r
                       /\ ~Raises(helper.callbacks_always) => pending = "task"

\* C4 witness: the task raised, two failure callbacks ran, the error was
\* printed and, exit_on_error being false, the task error left the run
C4_Witness ==
    /\ pc = "exited"
    /\ ex = "task"
    /\ ~kw.exit_on_error
    /\ Indices("callback_failure") = <<1, 2>>
    /\ Happened("error")
    /\ pending = "task"

(* C9: for every scoped run with a log file, at every verbosity and with
   or without dry-run, the lines written to the log are: an opening
   timestamp line, a separator, the task's output, one final outcome line
   (done on success, the error line on failure), a closing separator and a
   closing timestamp line, in that order.  Stated for the runs in which the
   task returned or raised an Exception and no callback and no print
   raised, and not counting the echoed "[RUN] date" command lines. *)
C9_LogBracket ==
    (/\ pc = "exited"
     /\ kw.with_log
     /\ pending \in {"none", "task", "SystemExit(1)"}
     /\ ex \in {"none", "task"}) =>
        LET lines == SelectSeq(Kinds(Lines), LAMBDA k : k # "run")
            task == IF Happened("task") THEN <<"task">> ELSE <<>>
            outcome == IF ex = "none" THEN <<"done">> ELSE <<"error">>
        IN  lines = <<"date", "separation">> \o task \o outcome
                    \o <<"separation", "date">>

(***************************************************************************)
(* Properties of run_command and of the ScriptHelper object                *)
(***************************************************************************)
(* C1: for every helper configuration and every call of run_command, a
   subprocess is spawned exactly when force is true or dry_run is false;
   with dry_run true and force false the call spawns nothing. *)
C1_DryRunNeverExecutes ==
    call.op = "run_command" =>
        /\ (call.result.spawned = 1) <=> (call.force \/ ~helper.dry_run)
        /\ call.result.spawned \in {0, 1}
        /\ (helper.dry_run /\ ~call.force) =>
               (call.result.spawned = 0 /\ call.result.argv = <<>>
                /\ ~call.result.raised)

\* C1 witness: dry-run, not forced, at the highest verbosity: the command
\* line is echoed and nothing is spawned
C1_Witness ==
    /\ call.op = "run_command"
    /\ helper.dry_run
    /\ ~call.force
    /\ helper.verbosity = MaxVerbosity
    /\ call.result.echo
    /\ call.result.spawned = 0

(* C5: a helper constructed with quiet=true has verbosity 0 whatever
   verbosity was requested, one constructed with quiet=false keeps the
   requested verbosity; this stays so after any later assignment of the
   quiet attribute; and print_info writes exactly when verbosity > 0. *)
C5_QuietOverridesVerbosity ==
    /\ helper.verbosity = (IF kw.quiet THEN 0 ELSE kw.verbosity)
    /\ call.op = "print_info" => ((call.out # <<>>) <=> (helper.verbosity > 0))

\* C5 witness: constructed quiet with verbosity 3 requested, quiet then set
\* to false, and print_info writes nothing
C5_Witness ==
    /\ kw.quiet
    /\ kw.verbosity = 3
    /\ ~helper.quiet
    /\ call.op = "print_info"
    /\ call.out = <<>>

\* the index in args of its k-th non-empty token
NthNonEmpty(args, k) ==
    CHOOSE i \in 1..Len(args) :
        /\ args[i] # ""
        /\ Cardinality({j \in 1..i : args[j] # ""}) = k

\* cmd is the tokens of argv with one space between neighbours
SpaceJoined(cmd, argv) ==
    /\ Len(cmd) = 2 * Len(argv) - 1
    /\ \A i \in 1..Len(argv) : cmd[2 * i - 1] = argv[i]
    /\ \A i \in 1..(Len(argv) - 1) : cmd[2 * i] = " "

(* C8: whenever run_command executes (force true or dry_run false), the
   command is spawned once, with exactly the non-empty tokens of the
   argument list in their order; a non-zero exit status makes the call
   raise an error carrying the space-joined filtered command line and that
   exit status; exit status 0 makes it return without error. *)
C8_ExecutionAndFailure ==
    (call.op = "run_command" /\ (call.force \/ ~helper.dry_run)) =>
        LET r == call.result
            n == Cardinality({i \in 1..Len(call.args) : call.args[i] # ""})
        IN  /\ r.spawned = 1
            /\ Len(r.argv) = n
            /\ \A k \in 1..n : r.argv[k] = call.args[NthNonEmpty(call.args, k)]
            /\ r.raised <=> (call.returncode # 0)
            /\ r.raised =>
                   /\ r.error.returncode = call.returncode
                   /\ SpaceJoined(r.error.cmd, r.argv)

\* C8 witness: a command with an empty token between two others exits with
\* status 2, and the error carries the two tokens and the status
C8_Witness ==
    /\ call.op = "run_command"
    /\ call.args = <<"false", "", "date">>
    /\ call.returncode = 2
    /\ call.result.raised
    /\ call.result.error = [cmd |-> <<"false", " ", "date">>, returncode |-> 2]

\* the stdout target run_command hands to the process, by the rule of C10
ClaimedStdout ==
    IF call.stdout = "None"
    THEN IF call.silent \/ helper.verbosity < 2 THEN "DEVNULL" ELSE "file_log"
    ELSE call.stdout

(* C10 as stated: when run_command executes, stdout is resolved as above
   and stderr goes to the log sink when no stderr target is given and to
   the given target otherwise, independently of stdout. *)
C10_StreamsAsStated ==
    (call.op = "run_command" /\ call.result.spawned = 1) =>
        /\ call.result.stdout = ClaimedStdout
        /\ call.result.stderr
               = (IF call.stderr = "None" THEN "file_log" ELSE call.stderr)

(* C10 amended: when run_command executes, stdout is resolved as above;
   stderr is discarded together with stdout whenever no stdout target is
   given and (silent or verbosity < 2), even when a stderr target is given;
   in every other case stderr goes to the given stderr target, or to the
   log sink when none is given. *)
C10_Streams ==
    (call.op = "run_command" /\ call.result.spawned = 1) =>
        /\ call.result.stdout = ClaimedStdout
        /\ call.result.stderr
               = (IF call.stdout = "None" /\ (call.silent \/ helper.verbosity < 2)
                  THEN "DEVNULL"
                  ELSE IF call.stderr = "None" THEN "file_log" ELSE call.stderr)

\* C10 witness: a silent call with no stdout target and an explicit stderr
\* target runs with both streams discarded
C10_Witness ==
    /\ call.op = "run_command"
    /\ call.result.spawned = 1
    /\ call.silent
    /\ call.stdout = "None"
    /\ call.stderr = "err_file"
    /\ call.result.stdout = "DEVNULL"
    /\ call.result.stderr = "DEVNULL"

(***************************************************************************)
(* Properties of check_dir                                                 *)
(***************************************************************************)
C7_Outcome ==
    call.op = "check_dir" =>
        LET tree == fs[call.dpath]
            matching ==
                \E e \in tree.entries :
                    /\ e.is_file
                    /\ call.prefix.given => startswith(e.name, call.prefix.s)
        IN  /\ call.result.raised
                <=> (tree.kind # "absent" /\ ~helper.overwrite /\ matching)
            /\ ~call.result.raised => call.result.ret = call.dpath

(* C7: check_dir raises exactly when the path exists, overwrite is false
   and the directory contains, at any depth, at least one file (whose name
   starts with the prefix when one is given); otherwise it returns dpath
   unchanged; and a call of check_dir leaves the filesystem as it was. *)
C7_CheckDir ==
    /\ []C7_Outcome
    /\ [][call'.op = "check_dir" => fs' = fs]_vars

\* C7 witness: check_dir with a prefix raised over a directory whose only
\* matching file lies in a subdirectory, next to a file that does not match
C7_Witness ==
    /\ call.op = "check_dir"
    /\ call.result.raised
    /\ call.prefix = Some(<<"o">>)
    /\ fs[call.dpath].entries
           = {[name |-> <<"o", "t">>, is_file |-> TRUE, nested |-> TRUE],
              [name |-> <<"t", "o">>, is_file |-> TRUE, nested |-> FALSE]}

(***************************************************************************)
(* Properties of add_suffix                                                *)
(***************************************************************************)
(* C6: add_suffix returns a path with the parent directory of the input
   path and with the input name in which separator+suffix stands
   immediately before the extension (the custom ext when given, otherwise
   the path's last suffix); a suffix written with the separator in front
   gives the same result as the suffix written without it.  Stated for the calls whose
   custom ext, when given, is the ending of the file name. *)
C6_AddSuffix ==
    (/\ sfx.op = "add_suffix"
     /\ sfx.ext.given => endswith(path_name(sfx.path), sfx.ext.s)) =>
        LET name == path_name(sfx.path)
            ext1 == IF sfx.ext.given THEN sfx.ext.s ELSE path_suffix(sfx.path)
            sep1 == IF sfx.sep.given THEN sfx.sep.s ELSE <<>>
            bare == IF sfx.sep.given /\ startswith(sfx.suffix, sep1)
                    THEN SubSeq(sfx.suffix, Len(sep1) + 1, Len(sfx.suffix))
                    ELSE sfx.suffix
        IN  /\ path_parent(sfx.result) = path_parent(sfx.path)
            /\ path_name(sfx.result)
                   = SubSeq(name, 1, Len(name) - Len(ext1)) \o sep1 \o bare \o ext1
            /\ (sfx.sep.given /\ ~startswith(sfx.suffix, sep1)) =>
                   add_suffix(sfx.path, sep1 \o sfx.suffix, sfx.sep, sfx.ext)
                       = sfx.result

====
